---- MODULE Spec2Model ----
(***************************************************************************)
(* The ThingSpeak bridge of iot-stack (src/bridge_thingspeak/bridge.py):   *)
(* per-(user, room) aggregation records, the accumulate / flush algorithm, *)
(* the message handler _on_msg and the background tick _check_wakeup_due.  *)
(*                                                                         *)
(* Numbers are fixed-point integers in hundredths (Unit = 10^Decimals), so *)
(* that round(x, 2) is a rounding to an integer.  A Python float is        *)
(* modelled as a binary floating-point number with MantBits significant    *)
(* bits (round to nearest, ties to even) instead of 53.                    *)
(***************************************************************************)
EXTENDS Integers, Sequences, FiniteSets, TLC

\* ---------------------------------------------------------------- bounds
\* settings.json "minPeriodSec" (BridgeSettings.min_period), in clock units
MinPeriod == 2
\* number of clock units the model runs after StartTime
Horizon == 2
\* number of broker messages delivered in one behaviour
MaxMsgs == 2
\* significant bits of the modelled float (binary64 has 53)
MantBits == 3
\* decimals kept by round(.., 2) in _send_periodic
Decimals == 2

Unit == 10 ^ Decimals
\* time.time() at process start: far beyond MinPeriod after the epoch
StartTime == MinPeriod

Users == {"U1", "U2"}
Rooms == {"R1"}
Subjects == Users \X Rooms

\* ------------------------------------------------------- Python values
None == [t |-> "none", n |-> 0, s |-> ""]
Num(n) == [t |-> "num", n |-> n, s |-> ""]
Bool(b) == [t |-> "bool", n |-> IF b THEN 1 ELSE 0, s |-> ""]
Str(s) == [t |-> "str", n |-> 0, s |-> s]

Abs(n) == IF n < 0 THEN -n ELSE n

RECURSIVE Quantum(_, _)
\* the spacing of the floats around n >= 0: the least power of two q with
\* n < q * 2^MantBits
Quantum(n, q) == IF n < q * (2 ^ MantBits) THEN q ELSE Quantum(n, 2 * q)

\* n rounded to MantBits significant bits, ties to even (n >= 0)
FRoundPos(n) ==
    LET q == Quantum(n, 1)
        m == n \div q
        r == n % q
    IN  IF 2 * r < q THEN m * q
        ELSE IF 2 * r > q THEN (m + 1) * q
        ELSE IF m % 2 = 0 THEN m * q ELSE (m + 1) * q

FRound(n) == IF n < 0 THEN -FRoundPos(-n) ELSE FRoundPos(n)

\* float addition: the exact sum, rounded once
FAdd(a, b) == FRound(a + b)

\* x / cnt rounded to a whole number of hundredths, ties to even: round(x/cnt, 2)
Round2(x, cnt) ==
    LET q == x \div cnt
        r == x % cnt
    IN  IF 2 * r < cnt THEN q
        ELSE IF 2 * r > cnt THEN q + 1
        ELSE IF q % 2 = 0 THEN q ELSE q + 1

\* isinstance(v, (int, float)): bool is a subclass of int
IsNumber(v) == v.t \in {"num", "bool"}

\* float(v) for a number
Float(v) == IF v.t = "bool" THEN v.n * Unit ELSE FRound(v.n)

\* str.strip().lower() on the strings the model uses
StripLower(s) ==
    CASE s = "ON" -> "on"
      [] s = " true " -> "true"
      [] OTHER -> s

ToBool(v) ==
    CASE v.t = "bool" -> v
      [] v.t = "num" -> Bool(Abs(v.n) >= Unit)
      [] v.t = "str" -> Bool(StripLower(v.s) \in {"true", "1", "on"})
      [] OTHER -> None

\* ------------------------------------------------------------ the record
AccFields == {"temp", "hum", "bpm", "light"}
Actuators == {"servoFan", "servoCurtain", "LedL"}
Tracked == AccFields \cup Actuators \cup {"alerts"}

\* settings.json "fields": the keys of BridgeSettings.fields_map
FieldsMap == Tracked

ZeroAcc == [sum |-> 0, count |-> 0]

\* a plausible bug: a new record's timer starts at the time the bridge started
NewStateMutant ==
    [last |-> StartTime, wakeup_due |-> 0,
     vals |-> [f \in Tracked |-> None],
     acc |-> [f \in AccFields |-> ZeroAcc]]

NewState ==
    [last |-> 0, wakeup_due |-> 0,
     vals |-> [f \in Tracked |-> None],
     acc |-> [f \in AccFields |-> ZeroAcc]]

\* a plausible bug: making a record makes every record anew
EnsureStateMutant(S, key) == [k \in DOMAIN S \cup {key} |-> NewState]

EnsureState(S, key) == IF key \in DOMAIN S THEN S ELSE S @@ (key :> NewState)

\* dict.get(key, default)
Get(d, key, default) == IF key \in DOMAIN d THEN d[key] ELSE default

\* d[key] = v on a dict
Put(d, key, v) == [k \in DOMAIN d \cup {key} |-> IF k = key THEN v ELSE d[k]]

\* ------------------------------------------------------------- topics
\* A topic is the sequence of its segments (the text between the slashes);
\* a leading slash gives a leading empty segment.
RECURSIVE LStrip(_)
\* topic.lstrip("/")
LStrip(topic) ==
    IF Len(topic) > 1 /\ topic[1] = "" THEN LStrip(Tail(topic)) ELSE topic

\* str.startswith("SC/alerts/")
StartsWithAlerts(topic) ==
    Len(topic) >= 3 /\ topic[1] = "SC" /\ topic[2] = "alerts"

\* str.endswith("/" + leaf)
EndsWith(topic, leaf) == Len(topic) >= 2 /\ topic[Len(topic)] = leaf

NoKey == [ok |-> FALSE, user |-> "", room |-> ""]

\* a plausible bug: the root segment is not looked at
ParseTopicMutant(topic) ==
    LET t == LStrip(topic)
    IN  IF Len(t) >= 4 /\ t[2] # "" /\ t[3] # ""
        THEN [ok |-> TRUE, user |-> t[2], room |-> t[3]]
        ELSE NoKey

\* _on_msg, step 1: the (user, room) named by the topic, if any
ParseTopic(topic) ==
    LET t == LStrip(topic)
        found ==
            IF StartsWithAlerts(t)
            THEN IF Len(t) >= 4
                 THEN [ok |-> TRUE, user |-> t[3], room |-> t[4]]
                 ELSE NoKey
            ELSE IF Len(t) >= 4 /\ t[1] = "SC" /\ t[2] # "" /\ t[3] # ""
                 THEN [ok |-> TRUE, user |-> t[2], room |-> t[3]]
                 ELSE NoKey
    IN  IF found.user = "" \/ found.room = "" THEN NoKey ELSE found

\* ------------------------------------------------------------ payloads
\* kind "senml": a SenML pack decoding to the measures e (name segments, value);
\* kind "json":  a JSON object; evList says whether its "events" is a list
\*               (a missing key reads as the empty list), ev are the statuses;
\* kind "jsonval": a JSON value that is neither an object nor a SenML pack
\*               (a number, a string, a list of numbers);
\* kind "text":  anything else.
SenML(e) == [kind |-> "senml", e |-> e, evList |-> FALSE, ev |-> <<>>]
Json(isList, ev) == [kind |-> "json", e |-> <<>>, evList |-> isList, ev |-> ev]
JsonVal == [kind |-> "jsonval", e |-> <<>>, evList |-> FALSE, ev |-> <<>>]
Text == [kind |-> "text", e |-> <<>>, evList |-> FALSE, ev |-> <<>>]
\* a JSON list whose first record holds the entries e and whose next item is
\* not a record
BadPack(e) == [kind |-> "badpack", e |-> e, evList |-> FALSE, ev |-> <<>>]

Measure(name, v) == [n |-> name, v |-> v]

\* ----------------------------------------------------------- exceptions
\* The try blocks of the bridge, by the line of their except clause: "parse"
\* (_parse_senml_safe, 264), "alertjson" (_handle_alert_json, 271), "creds"
\* (_get_ts_creds, 223), "post" (_send_periodic, 370), "onmsg" (_on_msg, 446).
\* a plausible bug: _get_ts_creds and _on_msg let an error through
CatchesMutant(site) == site \notin {"creds", "onmsg"}

\* every one of them is `except Exception`
Catches(site) == TRUE

RECURSIVE CaughtBy(_)
\* where an exception ends that is raised inside the try blocks of chain,
\* innermost first: at the first that catches it, or outside the handler
CaughtBy(chain) ==
    IF chain = <<>> THEN "escaped"
    ELSE IF Catches(Head(chain)) THEN Head(chain) ELSE CaughtBy(Tail(chain))

\* parse_senml raises on anything but a list of records
ParseRaises(payload) == payload.kind # "senml"

\* _handle_alert_json line 277: data.get raises on a JSON value without it
AlertGetRaises(payload) == payload.kind \in {"jsonval", "badpack"}

\* a plausible bug: the entries decoded before the error are returned
ParseSenmlPartialMutant(payload) == payload.e

\* _parse_senml_safe: parse_senml raises on anything but a list of records
ParseSenmlSafe(payload) == IF payload.kind = "senml" THEN payload.e ELSE <<>>

\* ------------------------------------------------- aggregation engine
\* one iteration of the loop of _process_measures
ProcessOne(st, m) ==
    IF m.n = <<>> THEN st
    ELSE
    LET last == m.n[Len(m.n)]
        base == IF last = "raw" THEN "light" ELSE last
        st1 ==
            IF base \in DOMAIN st.vals
            THEN IF base \in Actuators
                 THEN [st EXCEPT !.vals[base] = ToBool(m.v)]
                 ELSE IF IsNumber(m.v)
                      THEN LET st0 == [st EXCEPT !.vals[base] = Num(Float(m.v))]
                           IN  IF base \in DOMAIN st.acc
                               THEN [st0 EXCEPT
                                       !.acc[base].sum = FAdd(@, Float(m.v)),
                                       !.acc[base].count = @ + 1]
                               ELSE st0
                      ELSE st
            ELSE st
    IN  IF base \in {"servoCurtain", "LedL", "ServoDHT"}
        THEN [st1 EXCEPT !.vals =
                Put(@, base, IF base \in {"servoCurtain", "LedL"}
                             THEN ToBool(m.v) ELSE m.v)]
        ELSE st1

RECURSIVE ProcessMeasures(_, _)
ProcessMeasures(measures, st) ==
    IF measures = <<>> THEN st
    ELSE ProcessMeasures(Tail(measures), ProcessOne(st, Head(measures)))

\* -------------------------------------------------------- flush scheduler
\* _send_periodic, lines 322-325
\* a plausible bug: the scheduler knows no rate limit
EligibleMutant(st, now) == TRUE

\* a plausible bug: a deadline does not override the rate limit
ForcedMutant(st, now) == FALSE

Forced(st, now) == st.wakeup_due # 0 /\ now >= st.wakeup_due

Eligible(st, now) == Forced(st, now) \/ ~(now - st.last < MinPeriod)

\* a plausible bug: the last reading is sent instead of the average
FieldValueMutant(st, name) == Get(st.vals, name, None)

\* the value _send_periodic resolves for one output field (None: omitted)
FieldValue(st, name) ==
    IF name \in DOMAIN st.acc
    THEN IF st.acc[name].count > 0
         THEN Num(Round2(st.acc[name].sum, st.acc[name].count))
         ELSE Get(st.vals, name, None)
    ELSE Get(st.vals, name, None)

\* a plausible bug: a field without readings in the window is left out
PayloadValuesMutant(st) ==
    LET names == {name \in FieldsMap :
                     /\ FieldValue(st, name) # None
                     /\ name \in DOMAIN st.acc => st.acc[name].count > 0}
    IN  [name \in names |-> FieldValue(st, name)]

\* payload_values of _send_periodic
PayloadValues(st) ==
    LET names == {name \in FieldsMap : FieldValue(st, name) # None}
    IN  [name \in names |-> FieldValue(st, name)]

\* a plausible bug: every value goes out as it is stored, an actuator's boolean
\* included
ParamsMutant(values) ==
    LET names == {name \in FieldsMap \cap DOMAIN values : values[name] # None}
    IN  [name \in names |-> values[name].n]

\* the request parameters _post_thingspeak builds (without the api key)
Params(values) ==
    LET names == {name \in FieldsMap \cap DOMAIN values : values[name] # None}
    IN  [name \in names |->
            IF name \in Actuators
            THEN (IF ToBool(values[name]) = Bool(TRUE) THEN Unit ELSE 0)
            ELSE values[name].n]

\* sink answers: a 2xx with an entry id, a 2xx with body "0", a non-2xx
\* answer, or requests.post raising (network error, timeout)
Responses == {"ok", "zero", "non2xx", "raise"}

\* a plausible bug: the accumulators are left as they are
ResetAccMutant(st) == st

\* a plausible bug: the reset after a flush clears the last known values too
ResetAllMutant(st) ==
    [st EXCEPT !.acc = [f \in DOMAIN st.acc |-> ZeroAcc],
               !.vals = [f \in DOMAIN st.vals |-> None]]

ResetAcc(st) == [st EXCEPT !.acc = [f \in DOMAIN st.acc |-> ZeroAcc]]

\* a plausible bug: a soft-rejected write leaves the record as it was, for the
\* next handler to send it again
AfterPostMutant(st, now, resp) ==
    IF resp \in {"raise", "zero"} THEN st
    ELSE ResetAcc([st EXCEPT !.last = now, !.wakeup_due = 0])

\* _send_periodic after _post_thingspeak was called with parameters: the
\* exception handler leaves the record alone, any answer resets it
AfterPost(st, now, resp) ==
    IF resp = "raise" THEN st
    ELSE ResetAcc([st EXCEPT !.last = now, !.wakeup_due = 0])

\* does the answer of the sink count in window_counts
Counted(resp) == resp \notin {"zero", "raise"}

\* what _send_periodic makes of the answer
KindOf(resp) ==
    IF resp = "raise" THEN "failed"
    ELSE IF resp = "zero" THEN "rejected"
    ELSE IF resp = "ok" THEN "accepted" ELSE "non2xx"

\* a plausible bug: an empty payload returns without touching the timers
NothingToSendMutant(st, now) == st

\* _send_periodic lines 347-351: nothing to send
NothingToSend(st, now) == [st EXCEPT !.last = now, !.wakeup_due = 0]

\* _send_periodic as a function of the record, the time and the sink's answer:
\* the new record, what happened, the parameters sent and whether the
\* per-window counter grows
SendPeriodic(st, now, resp) ==
    IF ~Eligible(st, now)
    THEN [st |-> st, kind |-> "ratelimited", params |-> <<>>, counted |-> FALSE]
    ELSE
    LET values == PayloadValues(st)
        params == Params(values)
        done == [st EXCEPT !.last = now, !.wakeup_due = 0]
    IN  IF DOMAIN values = {}
        THEN [st |-> NothingToSend(st, now), kind |-> "skipped", params |-> <<>>,
              counted |-> FALSE]
        ELSE IF DOMAIN params = {}
        THEN [st |-> ResetAcc(done), kind |-> "skipped", params |-> <<>>,
              counted |-> FALSE]
        ELSE [st |-> AfterPost(st, now, resp), kind |-> KindOf(resp),
              params |-> params, counted |-> Counted(resp)]

\* ---------------------------------------------------- credential resolver
\* what the catalog service holds for a user when it is asked: api keys (and
\* no "channel" entry), a user without keys, no such user, or no answer at
\* all (the service is down)
CatalogAnswers == {"found", "nokeys", "nouser", "error"}

\* self.catalog.get_user(user) on the CatalogClient the bridge constructs:
\* common.catalog_client.CatalogClient defines no get_user, so the call raises
\* AttributeError before any request is made, whatever the catalog holds
GetUser(ans) == "error"

NoCreds == [api_key |-> "", channel |-> ""]
CredsOf(user, channel) == [api_key |-> user, channel |-> channel]

\* _get_ts_creds: the credentials (NoCreds: None), the cache afterwards and
\* whether the catalog was called
GetTsCreds(cache, key, ans) ==
    IF key \in DOMAIN cache
    THEN [creds |-> cache[key], cache |-> cache, called |-> FALSE]
    ELSE IF GetUser(ans) = "found"
    THEN [creds |-> CredsOf(key[1], "None"),
          cache |-> Put(cache, key, CredsOf(key[1], "None")), called |-> TRUE]
    ELSE [creds |-> NoCreds, cache |-> cache, called |-> TRUE]

\* ------------------------------------------------------- message handler
Max(a, b) == IF a >= b THEN a ELSE b

\* a plausible bug: the deadline ignores the time already elapsed since last
WakeupDueMutant(st, now) == now + MinPeriod

\* a plausible bug: the deadline is the time of the wakeup message
WakeupDueNow(st, now) == now

\* _on_msg lines 418-422: the deadline a wakeup message sets
WakeupDue(st, now) == now + Max(0, MinPeriod - (now - st.last))

\* a plausible bug: the window reset also empties the accumulators
InitTimeshiftMutant(st) ==
    ResetAcc([st EXCEPT !.vals = Put(@, "alerts", Num(0)), !.wakeup_due = 0])

\* a plausible bug: the window reset clears the last known alert count
InitTimeshiftClearsMutant(st) ==
    [st EXCEPT !.vals = Put(@, "alerts", None), !.wakeup_due = 0]

\* _handle_init_timeshift on the record
InitTimeshift(st) == [st EXCEPT !.vals = Put(@, "alerts", Num(0)), !.wakeup_due = 0]

\* _handle_alert_json lines 276-285: does the message count as an alert
HasAlert(payload) ==
    payload.kind = "json" /\ payload.evList
    /\ \E i \in DOMAIN payload.ev : payload.ev[i] = "ALERT"

\* a plausible bug: the new count is not stored in the record
StoreAlertCountMutant(st, count) == st

\* _handle_alert_json lines 292-294: the count becomes the last known value
StoreAlertCount(st, count) ==
    [st EXCEPT !.vals = Put(@, "alerts", Num(count * Unit))]

\* a plausible bug: every ALERT event of the message counts
NextAlertCountMutant(count, payload) ==
    count + Cardinality({i \in DOMAIN payload.ev : payload.ev[i] = "ALERT"})

\* _handle_alert_json lines 288-289: the count after a message with an alert
NextAlertCount(count, payload) == count + 1

Quiet(key, ev) ==
    [key |-> key, ev |-> ev, kind |-> "none", params |-> <<>>, exc |-> "none"]

\* the exception of a flush attempt under the try blocks outer, if any: the
\* catalog client raises on a cache miss, requests.post may raise
FlushExc(c, kind, outer) ==
    IF c.creds = NoCreds /\ c.called THEN CaughtBy(<<"creds">> \o outer)
    ELSE IF kind = "failed" THEN CaughtBy(<<"post">> \o outer)
    ELSE "none"

\* a plausible bug: the tick applies the scheduler's eligibility rule
TickDueMutant(st, now) == Eligible(st, now)

\* _check_wakeup_due lines 377-378: the subjects a tick handles
TickDue(st, now) == st.wakeup_due > 0 /\ now >= st.wakeup_due

\* a plausible bug: without credentials the handler returns at once
NoCredsOnMsgMutant(st, now) == st

\* _on_msg lines 437-441: no credentials on the message path
NoCredsOnMsg(st, now) == [st EXCEPT !.last = now]

\* a plausible bug: without credentials the tick keeps the deadline, to try
\* again at the next tick
NoCredsOnTickMutant(st, now) == [st EXCEPT !.last = now]

\* _check_wakeup_due lines 379-384: no credentials on the tick path
NoCredsOnTick(st, now) == [st EXCEPT !.last = now, !.wakeup_due = 0]

\* _on_msg up to and including _process_measures, for a message with a valid
\* topic that decodes to measures
Accumulated(P, topic, payload, now) ==
    LET k == ParseTopic(topic)
        key == <<k.user, k.room>>
        S1 == EnsureState(P.states, key)
        st1 == IF EndsWith(topic, "wakeup")
               THEN [S1[key] EXCEPT !.wakeup_due = WakeupDue(S1[key], now)]
               ELSE S1[key]
    IN  [P EXCEPT !.states =
            [S1 EXCEPT ![key] = ProcessMeasures(ParseSenmlSafe(payload), st1)]]

\* _on_msg from _get_ts_creds on, lines 437-445
MsgFlush(P, key, now, ans, resp) ==
    LET st == P.states[key]
        c == GetTsCreds(P.user_api, key, ans)
    IN
    IF c.creds = NoCreds
    THEN [P EXCEPT !.states[key] = NoCredsOnMsg(st, now),
                   !.user_api = c.cache,
                   !.obs = [key |-> key, ev |-> "telemetry", kind |-> "nocreds",
                            params |-> <<>>,
                            exc |-> FlushExc(c, "nocreds", <<"onmsg">>)]]
    ELSE
    LET f == SendPeriodic(st, now, resp)
    IN  [P EXCEPT !.states[key] = f.st,
                  !.user_api = c.cache,
                  !.window_counts =
                      IF f.counted THEN Put(@, key, Get(@, key, 0) + 1) ELSE @,
                  !.obs = [key |-> key, ev |-> "telemetry", kind |-> f.kind,
                           params |-> f.params,
                           exc |-> FlushExc(c, f.kind, <<"onmsg">>)]]

\* _on_msg as a function of the program state (a record of states, user_api,
\* window_counts, alert_counts), the message, the time, and the answers of
\* the catalog and of the sink; obs says what the handler did
OnMsg(P, topic, payload, now, ans, resp) ==
    LET k == ParseTopic(topic)
        key == <<k.user, k.room>>
        S1 == EnsureState(P.states, key)
        st == S1[key]
    IN
    IF ~k.ok THEN [P EXCEPT !.obs = Quiet(key, "ignored")]
    ELSE IF EndsWith(topic, "initTimeshift")
    THEN [P EXCEPT !.states = [S1 EXCEPT ![key] = InitTimeshift(st)],
                   !.alert_counts = Put(@, key, 0),
                   !.window_counts = Put(@, key, 0),
                   !.obs = Quiet(key, "init")]
    ELSE
    LET wake == EndsWith(topic, "wakeup")
        st1 == IF wake THEN [st EXCEPT !.wakeup_due = WakeupDue(st, now)] ELSE st
        measures == ParseSenmlSafe(payload)
    IN
    IF measures = <<>>
    THEN LET parsed == IF ParseRaises(payload) THEN CaughtBy(<<"parse", "onmsg">>)
                       ELSE "none"
         IN
         IF StartsWithAlerts(topic) /\ AlertGetRaises(payload)
         THEN [P EXCEPT !.states = [S1 EXCEPT ![key] = st1],
                        !.obs = [Quiet(key, "caught") EXCEPT
                                    !.exc = CaughtBy(<<"onmsg">>)]]
         ELSE IF StartsWithAlerts(topic) /\ HasAlert(payload)
         THEN LET count == NextAlertCount(Get(P.alert_counts, key, 0), payload)
              IN  [P EXCEPT
                     !.states = [S1 EXCEPT ![key] = StoreAlertCount(st1, count)],
                     !.alert_counts = Put(@, key, count),
                     !.obs = [Quiet(key, "alert") EXCEPT !.exc = parsed]]
         ELSE [P EXCEPT !.states = [S1 EXCEPT ![key] = st1],
                        !.obs = [Quiet(key, IF StartsWithAlerts(topic) THEN "noalert"
                                            ELSE IF wake THEN "wakeup"
                                            ELSE "dropped")
                                 EXCEPT !.exc =
                                    IF StartsWithAlerts(topic) /\ payload.kind = "text"
                                    THEN CaughtBy(<<"alertjson", "onmsg">>)
                                    ELSE parsed]]
    ELSE MsgFlush(Accumulated(P, topic, payload, now), key, now, ans, resp)

\* ------------------------------------------------------- background tick
\* the body of the loop of _check_wakeup_due for one record
TickOne(P, key, now, ans, resp) ==
    LET st == P.states[key]
    IN
    IF ~TickDue(st, now)
    THEN [P EXCEPT !.obs = Quiet(key, "tick")]
    ELSE
    LET c == GetTsCreds(P.user_api, key, ans)
    IN
    IF c.creds = NoCreds
    THEN [P EXCEPT !.states[key] = NoCredsOnTick(st, now),
                   !.user_api = c.cache,
                   !.obs = [key |-> key, ev |-> "tick", kind |-> "nocreds",
                            params |-> <<>>, exc |-> FlushExc(c, "nocreds", <<>>)]]
    ELSE
    LET f == SendPeriodic(st, now, resp)
    IN  [P EXCEPT !.states[key] = f.st,
                  !.user_api = c.cache,
                  !.window_counts =
                      IF f.counted THEN Put(@, key, Get(@, key, 0) + 1) ELSE @,
                  !.obs = [key |-> key, ev |-> "tick", kind |-> f.kind,
                           params |-> f.params, exc |-> FlushExc(c, f.kind, <<>>)]]

\* ------------------------------------------------------------ the inputs
\* a reading (in hundredths) at the end of the float's exact range: adding 1 to
\* it is a tie between two floats
Big == 3 * (2 ^ (MantBits - 1))

\* the temperature readings of one message, in hundredths
TempPacks == {<<1>>, <<4, 1>>, <<Big, 1, 1>>}

TeleTopic(k) == <<"SC", k[1], k[2], "sensors">>
LedTopic(k) == <<"SC", k[1], k[2], "LedL">>
WakeTopic(k) == <<"SC", k[1], k[2], "wakeup">>
InitTopic(k) == <<"SC", k[1], k[2], "initTimeshift">>
AlertTopic(k) == <<"SC", "alerts", k[1], k[2]>>

Msg(topic, payload) == [topic |-> topic, payload |-> payload]

\* no message: the handler that ran last was not _on_msg
NoMsg == Msg(<<>>, Text)

TempPack(vs) == SenML([i \in DOMAIN vs |-> Measure(<<"dev1", "temp">>, Num(vs[i]))])

\* the first subject receives every kind of message, the others the ones
\* that make and flush a record
Main == <<"U1", "R1">>

MessagesOf(k) ==
    IF k = Main
    THEN {Msg(TeleTopic(k), TempPack(vs)) : vs \in TempPacks}
         \cup {Msg(LedTopic(k), SenML(<<Measure(<<"LedL">>, Bool(TRUE))>>)),
               Msg(WakeTopic(k), Json(TRUE, <<>>)),
               Msg(InitTopic(k), Json(TRUE, <<>>)),
               Msg(AlertTopic(k), Json(TRUE, <<"ALERT", "OK", "ALERT">>)),
               Msg(AlertTopic(k), Json(TRUE, <<"OK">>)),
               Msg(AlertTopic(k), Json(FALSE, <<"ALERT">>)),
               Msg(AlertTopic(k), JsonVal)}
    ELSE {Msg(WakeTopic(k), TempPack(<<1>>))}

Messages == UNION {MessagesOf(k) : k \in Subjects}

\* ----------------------------------------------------------- the machine
VARIABLES
    clock,          \* time.time(), in clock units
    msgs,           \* messages delivered so far
    states,         \* self.states
    user_api,       \* self.user_api
    window_counts,  \* self.window_counts
    alert_counts,   \* self.alert_counts
    by,             \* the handler that ran last ("msg", "tick", "none"), the
                    \* subject key of its message, what the message was to
                    \* the handler, and the message itself
    out,            \* per subject: what the flush scheduler did in that handler
    wtimes,         \* per subject: the times of the write requests sent
    wkinds,         \* per subject: what became of each of these requests
    lastParams,     \* per subject: the parameters of the latest write request
    prevParams,     \* per subject: the parameters of the request before it
    sentWin,        \* per subject: the readings behind the latest write request
    win,            \* per subject and averageable field: readings since the reset
    fault,          \* the error sites whose except clause ended an exception
                    \* in the handler that ran last, and the threads that an
                    \* exception has ended
    ts,             \* the TimeShift service: the pairs it knows, the light
                    \* readings it caches, the phase it recorded per pair,
                    \* what its loop published per pair in its latest
                    \* iteration, the minute of the day, the sleep and wake
                    \* times the catalog holds per user, and the iterations
                    \* so far
    race,           \* the two threads of the bridge when their steps interleave:
                    \* where each is and the locals it holds
    pend            \* per subject: the wakeup request that no later message of
                    \* the subject has followed: its deadline, and whether it is
                    \* waiting for the tick, served by a tick's flush, or
                    \* dropped by a tick

vars == <<clock, msgs, states, user_api, window_counts, alert_counts,
          by, out, wtimes, wkinds, lastParams, prevParams, sentWin, win, pend, fault, race,
          ts>>

EmptyWin == [f \in AccFields |-> <<>>]

\* a request reached the sink (or was attempted)
SentKinds == {"accepted", "rejected", "non2xx", "failed"}
\* _send_periodic ran to its end with a request
DoneKinds == {"accepted", "rejected", "non2xx"}
\* the flush outcomes: the scheduler found the subject eligible
FlushKinds == SentKinds \cup {"skipped"}

Prog ==
    [states |-> states, user_api |-> user_api, window_counts |-> window_counts,
     alert_counts |-> alert_counts, obs |-> Quiet(<<"", "">>, "none")]

RECURSIVE ReadingsOf(_, _)
\* the numeric readings of field f that a decoded message carries, in order
ReadingsOf(measures, f) ==
    IF measures = <<>> THEN <<>>
    ELSE LET m == Head(measures)
             last == IF m.n = <<>> THEN "" ELSE m.n[Len(m.n)]
             base == IF last = "raw" THEN "light" ELSE last
         IN  (IF base = f /\ IsNumber(m.v) THEN <<Float(m.v)>> ELSE <<>>)
             \o ReadingsOf(Tail(measures), f)

\* the history after a handler: kinds[s] is what the scheduler did for subject
\* s, sent[s] the parameters of its request, grown[s] the readings since the
\* reset including those the handler decoded
Observe(kinds, sent, grown) ==
    /\ out' = kinds
    /\ wtimes' = [s \in Subjects |->
                    IF kinds[s] \in SentKinds THEN Append(wtimes[s], clock')
                    ELSE wtimes[s]]
    /\ wkinds' = [s \in Subjects |->
                    IF kinds[s] \in SentKinds THEN Append(wkinds[s], kinds[s])
                    ELSE wkinds[s]]
    /\ lastParams' = [s \in Subjects |->
                    IF kinds[s] \in SentKinds THEN sent[s] ELSE lastParams[s]]
    /\ prevParams' = [s \in Subjects |->
                    IF kinds[s] \in SentKinds THEN lastParams[s] ELSE prevParams[s]]
    /\ sentWin' = [s \in Subjects |->
                    IF kinds[s] \in SentKinds THEN grown[s] ELSE sentWin[s]]
    /\ win' = [s \in Subjects |->
                    IF kinds[s] \in DoneKinds THEN EmptyWin ELSE grown[s]]

Idle == [s \in Subjects |-> "none"]

NoRequest == [is |-> "none", due |-> 0]

\* the I/O thread of the broker client between messages, and the main thread
\* in time.sleep
IoIdle == [pc |-> "idle", key |-> <<"", "">>, now |-> 0]
MainSleeping == [pc |-> "sleeping", key |-> <<"", "">>, now |-> 0, todo |-> {},
                 since |-> StartTime]
\* fresh: per subject, the readings accumulated that no request has carried
\* yet; lost: the subjects a reset of which zeroed such readings
\* rd: per thread, the value window_counts.get returned at line 361 and the
\* answer it belongs to, while the sum is not stored yet; counted: per
\* subject, the answers counted since the subject's window reset
NoRead == [n |-> -1, resp |-> "none"]
NoRace == [io |-> IoIdle, main |-> MainSleeping, raced |-> <<"", "">>,
           fresh |-> [s \in Subjects |-> 0], lost |-> {},
           rd |-> [io |-> NoRead, main |-> NoRead],
           counted |-> [s \in Subjects |-> 0]]

NoFault == [caught |-> {}, dead |-> {}]

\* the TimeShift service after construction: no pair known, nothing cached
\* or recorded, and a catalog without sleep and wake times
NoTimes == [sleep |-> -1, wake |-> -1]
TsStart ==
    [known |-> {}, light |-> {}, last_phase |-> <<>>,
     pub |-> [k \in Subjects |-> <<>>], now |-> 0,
     cat |-> [u \in Users |-> NoTimes], iters |-> 0]

\* the record of the exceptions excs of a handler run by thread
Faulted(excs, thread) ==
    [caught |-> excs \ {"none", "escaped"},
     dead |-> IF "escaped" \in excs THEN fault.dead \cup {thread} ELSE fault.dead]

Init ==
    /\ clock = StartTime
    /\ msgs = 0
    /\ states = <<>>
    /\ user_api \in {<<>>, [k \in Subjects |-> CredsOf(k[1], "None")]}
    /\ window_counts = <<>>
    /\ alert_counts = <<>>
    /\ by = [h |-> "none", key |-> <<"", "">>, ev |-> "none",
             msg |-> NoMsg]
    /\ out = Idle
    /\ wtimes = [s \in Subjects |-> <<>>]
    /\ wkinds = [s \in Subjects |-> <<>>]
    /\ lastParams = [s \in Subjects |-> <<>>]
    /\ prevParams = [s \in Subjects |-> <<>>]
    /\ sentWin = [s \in Subjects |-> EmptyWin]
    /\ win = [s \in Subjects |-> EmptyWin]
    /\ pend = [s \in Subjects |-> NoRequest]
    /\ fault = NoFault
    /\ race = NoRace
    /\ ts = TsStart

\* the handler of m gets as far as the credential lookup
ReachesCreds(m) ==
    /\ ParseTopic(m.topic).ok
    /\ ~EndsWith(m.topic, "initTimeshift")
    /\ ParseSenmlSafe(m.payload) # <<>>

\* the catalog answers that matter to the handler of m: none on a cache hit
AnswersFor(m) ==
    LET k == ParseTopic(m.topic)
    IN  IF ReachesCreds(m) /\ <<k.user, k.room>> \notin DOMAIN user_api
        THEN CatalogAnswers ELSE {"error"}

\* the sink answers that matter: none when no request goes out
ResponsesFor(m, ans) ==
    IF OnMsg(Prog, m.topic, m.payload, clock, ans, "ok").obs.kind = "accepted"
    THEN Responses ELSE {"ok"}

\* _on_msg runs to its end on message m
Handle(m, ans, resp) ==
    /\ "io" \notin fault.dead
    /\ clock' = clock
    /\ \E R \in {OnMsg(Prog, m.topic, m.payload, clock, ans, resp)} :
           /\ states' = R.states
           /\ user_api' = R.user_api
           /\ window_counts' = R.window_counts
           /\ alert_counts' = R.alert_counts
           /\ Observe([s \in Subjects |-> IF s = R.obs.key THEN R.obs.kind ELSE "none"],
                      [s \in Subjects |-> R.obs.params],
                      [s \in Subjects |->
                         IF s = R.obs.key /\ R.obs.ev = "telemetry"
                         THEN [f \in AccFields |->
                                 win[s][f] \o ReadingsOf(ParseSenmlSafe(m.payload), f)]
                         ELSE win[s]])
           /\ by' = [h |-> "msg", key |-> R.obs.key, ev |-> R.obs.ev,
                     msg |-> m]
           /\ fault' = Faulted({R.obs.exc}, "io")
           /\ pend' = [s \in Subjects |->
                         IF s # R.obs.key \/ R.obs.ev = "ignored" THEN pend[s]
                         ELSE IF EndsWith(m.topic, "wakeup") /\ R.obs.kind \notin FlushKinds
                         THEN [is |-> "waiting",
                               due |-> Max(clock, Get(states, s, NewState).last + MinPeriod)]
                         ELSE NoRequest]
    /\ msgs' = msgs + 1
    /\ UNCHANGED <<race, ts>>

\* the broker client delivers one message
Deliver(m, ans, resp) == msgs < MaxMsgs /\ Handle(m, ans, resp)

\* the keys _check_wakeup_due finds due at time now
DueKeys(now) ==
    {k \in DOMAIN states : TickDue(states[k], now)}

RECURSIVE TickAll(_, _, _, _, _)
\* the loop of _check_wakeup_due over the keys still to visit
TickAll(P, keys, now, ansF, respF) ==
    IF keys = {} THEN P
    ELSE LET k == CHOOSE x \in keys : TRUE
         IN  TickAll(TickOne(P, k, now, ansF[k], respF[k]), keys \ {k}, now,
                     ansF, respF)

\* the main thread is alive and the run has time left
CanTick == "main" \notin fault.dead /\ clock < StartTime + Horizon

\* the main loop of run: time.sleep(1) ends and _check_wakeup_due runs
Tick ==
    /\ CanTick
    /\ clock' = clock + 1
    /\ \E ansF \in [DueKeys(clock') -> CatalogAnswers],
          respF \in [DueKeys(clock') -> Responses] :
         LET ansAll == [k \in DOMAIN states |->
                          IF k \in DueKeys(clock') THEN ansF[k] ELSE "error"]
             respAll == [k \in DOMAIN states |->
                          IF k \in DueKeys(clock') THEN respF[k] ELSE "ok"]
         IN
         \E R \in {TickAll(Prog, DOMAIN states, clock', ansAll, respAll)},
            obsF \in {[k \in DOMAIN states |->
                         TickOne(Prog, k, clock', ansAll[k], respAll[k]).obs]} :
             /\ states' = R.states
             /\ user_api' = R.user_api
             /\ window_counts' = R.window_counts
             /\ alert_counts' = R.alert_counts
             /\ Observe([s \in Subjects |->
                           IF s \in DOMAIN states THEN obsF[s].kind ELSE "none"],
                        [s \in Subjects |->
                           IF s \in DOMAIN states THEN obsF[s].params ELSE <<>>],
                        win)
             /\ fault' = Faulted({obsF[k].exc : k \in DOMAIN states}, "main")
    /\ by' = [h |-> "tick", key |-> <<"", "">>, ev |-> "tick",
              msg |-> NoMsg]
    /\ pend' = [s \in Subjects |->
                  IF pend[s].is # "waiting" THEN pend[s]
                  ELSE IF out'[s] \in FlushKinds THEN [pend[s] EXCEPT !.is = "served"]
                  ELSE IF out'[s] = "nocreds" THEN [pend[s] EXCEPT !.is = "dropped"]
                  ELSE pend[s]]
    /\ UNCHANGED <<msgs, race, ts>>

\* any message the broker may deliver, with any answer of the collaborators
DeliverAny ==
    /\ msgs < MaxMsgs
    /\ \E m \in Messages :
         \E ans \in AnswersFor(m) : \E resp \in ResponsesFor(m, ans) :
            Deliver(m, ans, resp)

Next ==
    \/ DeliverAny
    \/ Tick

Spec == Init /\ [][Next]_vars

\* ------------------------------------------------- the two threads apart
\* MyMQTT starts the broker client's loop in a thread of its own, which runs
\* _on_msg; run() calls _check_wakeup_due from the main thread; no lock
\* guards the records. requests.post blocks, so each thread is followed to
\* its call of requests.post and from the answer on. The record at the call
\* is the record an exception of the call leaves behind.
AtPost(R) == R.obs.kind = "failed"

\* the history the interleaved steps leave alone
RaceFrame == UNCHANGED <<fault, wkinds, lastParams, prevParams, sentWin, win, pend, ts>>

\* do both threads now hold a request of subject key
Overlap(r, key) ==
    r.io.pc = "posting" /\ r.main.pc = "posting" /\ r.io.key = key /\ r.main.key = key

\* wall-clock time moves on, whatever the threads do
TimePasses ==
    /\ clock < StartTime + Horizon
    /\ clock' = clock + 1
    /\ UNCHANGED <<msgs, states, user_api, window_counts, alert_counts, by, out,
                   wtimes, race>>
    /\ RaceFrame

\* the number of readings _process_measures adds to the accumulators
CountReadings(measures) ==
    Len(ReadingsOf(measures, "temp")) + Len(ReadingsOf(measures, "hum"))
    + Len(ReadingsOf(measures, "bpm")) + Len(ReadingsOf(measures, "light"))

\* the I/O thread takes a message and runs _on_msg up to its end or, if the
\* message decodes to measures, up to the end of _process_measures
IoStart(m) ==
    /\ race.io.pc = "idle"
    /\ msgs < MaxMsgs
    /\ \E R \in {OnMsg(Prog, m.topic, m.payload, clock, "error", "raise")} :
           /\ by' = [h |-> "msg", key |-> R.obs.key, ev |-> R.obs.ev,
                     msg |-> m]
           /\ IF R.obs.ev = "telemetry"
              THEN /\ states' = Accumulated(Prog, m.topic, m.payload, clock).states
                   /\ race' = [race EXCEPT
                         !.io = [pc |-> "scheduling", key |-> R.obs.key, now |-> clock],
                         !.fresh[R.obs.key] =
                             @ + CountReadings(ParseSenmlSafe(m.payload))]
                   /\ UNCHANGED <<window_counts, alert_counts, out>>
              ELSE /\ states' = R.states
                   /\ window_counts' = R.window_counts
                   /\ alert_counts' = R.alert_counts
                   /\ race' = [race EXCEPT
                         !.raced = <<"", "">>,
                         !.counted = IF R.obs.ev = "init"
                                     THEN [@ EXCEPT ![R.obs.key] = 0] ELSE @]
                   /\ out' = [s \in Subjects |->
                                IF s = R.obs.key THEN R.obs.kind ELSE out[s]]
    /\ msgs' = msgs + 1
    /\ UNCHANGED <<clock, user_api, wtimes>>
    /\ RaceFrame

\* the I/O thread goes on from _get_ts_creds: it reads the time and runs
\* _send_periodic up to its end, or up to the call of requests.post
IoSchedule(ans) ==
    /\ race.io.pc = "scheduling"
    /\ \E R \in {MsgFlush(Prog, race.io.key, clock, ans, "raise")} :
           /\ states' = R.states
           /\ user_api' = R.user_api
           /\ by' = [h |-> "msg", key |-> R.obs.key, ev |-> "telemetry",
                     msg |-> by.msg]
           /\ IF AtPost(R)
              THEN /\ race' = [race EXCEPT
                                 !.io = [pc |-> "posting", key |-> R.obs.key,
                                         now |-> clock],
                                 !.raced = IF race.main.pc = "posting"
                                              /\ race.main.key = R.obs.key
                                           THEN R.obs.key ELSE <<"", "">>,
                                 !.fresh[R.obs.key] = 0]
                   /\ wtimes' = [wtimes EXCEPT ![R.obs.key] = Append(@, clock)]
                   /\ out' = [out EXCEPT ![R.obs.key] = "posting"]
              ELSE /\ race' = [race EXCEPT !.io = IoIdle, !.raced = <<"", "">>]
                   /\ wtimes' = wtimes
                   /\ out' = [out EXCEPT ![R.obs.key] = R.obs.kind]
    /\ UNCHANGED <<clock, msgs, window_counts, alert_counts>>
    /\ RaceFrame

\* a thread's call of requests.post for subject key, made at time now,
\* returns or raises: the rest of _send_periodic
Finish(key, now, resp) ==
    /\ states' = [states EXCEPT ![key] = AfterPost(@, now, resp)]
    /\ window_counts' = IF Counted(resp)
                        THEN Put(window_counts, key, Get(window_counts, key, 0) + 1)
                        ELSE window_counts
    /\ out' = [out EXCEPT ![key] = KindOf(resp)]

\* the race record after the answer for subject key: a reset zeroes the
\* readings accumulated since the request was built
Answered(r, key, resp) ==
    IF resp = "raise" THEN r
    ELSE [r EXCEPT !.lost = IF r.fresh[key] > 0 THEN @ \cup {key} ELSE @,
                   !.fresh[key] = 0,
                   !.counted[key] = IF Counted(resp) THEN @ + 1 ELSE @]

\* line 361 is a read of window_counts, an addition and a store, and the
\* other thread can run between the read and the store: the thread has its
\* answer and reads the counter of subject key
ReadCount(key) == Get(window_counts, key, 0)

\* the thread stores the sum and runs the rest of _send_periodic
StoreCount(key, now, rd) ==
    /\ states' = [states EXCEPT ![key] = AfterPost(@, now, rd.resp)]
    /\ window_counts' = Put(window_counts, key, rd.n + 1)
    /\ out' = [out EXCEPT ![key] = KindOf(rd.resp)]

IoFinish(resp) ==
    /\ race.io.pc = "posting"
    /\ race.rd.io = NoRead
    /\ Finish(race.io.key, race.io.now, resp)
    /\ race' = [Answered(race, race.io.key, resp) EXCEPT !.io = IoIdle]
    /\ by' = [h |-> "msg", key |-> race.io.key, ev |-> "answer",
              msg |-> by.msg]
    /\ UNCHANGED <<clock, msgs, user_api, alert_counts, wtimes>>
    /\ RaceFrame

\* the I/O thread's call returns with an answer that counts, and the thread
\* reads the counter
IoReadCount(resp) ==
    /\ race.io.pc = "posting"
    /\ race.rd.io = NoRead
    /\ Counted(resp)
    /\ race' = [race EXCEPT !.rd.io = [n |-> ReadCount(race.io.key), resp |-> resp]]
    /\ UNCHANGED <<clock, msgs, states, user_api, window_counts, alert_counts,
                   by, out, wtimes>>
    /\ RaceFrame

IoStoreCount ==
    /\ race.io.pc = "posting"
    /\ race.rd.io # NoRead
    /\ StoreCount(race.io.key, race.io.now, race.rd.io)
    /\ race' = [Answered(race, race.io.key, race.rd.io.resp) EXCEPT
                  !.io = IoIdle, !.rd.io = NoRead]
    /\ by' = [h |-> "msg", key |-> race.io.key, ev |-> "answer",
              msg |-> by.msg]
    /\ UNCHANGED <<clock, msgs, user_api, alert_counts, wtimes>>
    /\ RaceFrame

RECURSIVE MainLoop(_, _, _, _)
\* the loop of _check_wakeup_due over the keys still to visit, up to its end
\* or up to the call of requests.post for one of them
MainLoop(P, todo, now, ansF) ==
    IF todo = {} THEN [P |-> P, posting |-> FALSE, key |-> <<"", "">>, todo |-> {}]
    ELSE LET k == CHOOSE x \in todo : TRUE
             R == TickOne(P, k, now, ansF[k], "raise")
         IN  IF AtPost(R)
             THEN [P |-> R, posting |-> TRUE, key |-> k, todo |-> todo \ {k}]
             ELSE MainLoop(R, todo \ {k}, now, ansF)

\* the keys of todo for which the loop will ask the catalog
AsksCatalog(todo, now) ==
    {k \in todo \cap DueKeys(now) : k \notin DOMAIN user_api}

\* the main thread goes on with its loop at the keys todo
MainGoesOn(todo, now) ==
    \E ansF \in [AsksCatalog(todo, now) -> CatalogAnswers] :
       \E L \in {MainLoop(Prog, todo, now,
                          [k \in todo |-> IF k \in DOMAIN ansF THEN ansF[k]
                                          ELSE "error"])} :
           /\ user_api' = L.P.user_api
           /\ race' = [race EXCEPT
                         !.main = IF L.posting
                                  THEN [pc |-> "posting", key |-> L.key, now |-> now,
                                        todo |-> L.todo, since |-> race.main.since]
                                  ELSE [MainSleeping EXCEPT !.since = clock],
                         !.raced = IF L.posting /\ race.io.pc = "posting"
                                      /\ race.io.key = L.key
                                   THEN L.key
                                   ELSE IF L.posting THEN <<"", "">> ELSE @,
                         !.fresh = IF L.posting THEN [@ EXCEPT ![L.key] = 0] ELSE @]
           /\ wtimes' = IF L.posting
                        THEN [wtimes EXCEPT ![L.key] = Append(@, clock)]
                        ELSE wtimes
           /\ states' = L.P.states

\* time.sleep(1) is over: _check_wakeup_due reads the time and starts its loop
MainWake ==
    /\ race.main.pc = "sleeping"
    /\ clock >= race.main.since + 1
    /\ MainGoesOn(DOMAIN states, clock)
    /\ by' = [h |-> "tick", key |-> <<"", "">>, ev |-> "tick",
              msg |-> NoMsg]
    /\ UNCHANGED <<clock, msgs, window_counts, alert_counts, out>>
    /\ RaceFrame

\* the main thread's call of requests.post returns or raises
MainFinish(resp) ==
    /\ race.main.pc = "posting"
    /\ race.rd.main = NoRead
    /\ Finish(race.main.key, race.main.now, resp)
    /\ race' = [Answered(race, race.main.key, resp) EXCEPT !.main.pc = "looping"]
    /\ by' = [h |-> "tick", key |-> <<"", "">>, ev |-> "tick",
              msg |-> NoMsg]
    /\ UNCHANGED <<clock, msgs, user_api, alert_counts, wtimes>>
    /\ RaceFrame

\* the main thread's call returns with an answer that counts, and the thread
\* reads the counter
MainReadCount(resp) ==
    /\ race.main.pc = "posting"
    /\ race.rd.main = NoRead
    /\ Counted(resp)
    /\ race' = [race EXCEPT
                  !.rd.main = [n |-> ReadCount(race.main.key), resp |-> resp]]
    /\ UNCHANGED <<clock, msgs, states, user_api, window_counts, alert_counts,
                   by, out, wtimes>>
    /\ RaceFrame

MainStoreCount ==
    /\ race.main.pc = "posting"
    /\ race.rd.main # NoRead
    /\ StoreCount(race.main.key, race.main.now, race.rd.main)
    /\ race' = [Answered(race, race.main.key, race.rd.main.resp) EXCEPT
                  !.main.pc = "looping", !.rd.main = NoRead]
    /\ by' = [h |-> "tick", key |-> <<"", "">>, ev |-> "tick",
              msg |-> NoMsg]
    /\ UNCHANGED <<clock, msgs, user_api, alert_counts, wtimes>>
    /\ RaceFrame

\* the main thread visits the keys left of its loop, with the time it read
\* when the loop began
MainContinue ==
    /\ race.main.pc = "looping"
    /\ MainGoesOn(race.main.todo, race.main.now)
    /\ by' = [h |-> "tick", key |-> <<"", "">>, ev |-> "tick",
              msg |-> NoMsg]
    /\ UNCHANGED <<clock, msgs, window_counts, alert_counts, out>>
    /\ RaceFrame

IoStartAny ==
    /\ race.io.pc = "idle"
    /\ msgs < MaxMsgs
    /\ \E m \in Messages : IoStart(m)

IoScheduleAny ==
    \E ans \in (IF race.io.key \in DOMAIN user_api THEN {"error"} ELSE CatalogAnswers) :
        IoSchedule(ans)

IoFinishAny == \E resp \in Responses : IoFinish(resp)

MainFinishAny == \E resp \in Responses : MainFinish(resp)

IoReadCountAny == \E resp \in Responses : IoReadCount(resp)

MainReadCountAny == \E resp \in Responses : MainReadCount(resp)

RaceNext ==
    \/ TimePasses
    \/ IoStartAny
    \/ IoScheduleAny
    \/ IoFinishAny
    \/ MainWake
    \/ MainFinishAny
    \/ MainContinue
    \/ IoReadCountAny
    \/ IoStoreCount
    \/ MainReadCountAny
    \/ MainStoreCount

SpecRace == Init /\ [][RaceNext]_vars

\* ------------------------------------------------------------ properties
HasRecord(s) == s \in DOMAIN states

AccZero(s) == \A f \in AccFields : states[s].acc[f] = ZeroAcc

\* C5: when the sink write of an eligible flush fails, by an exception of the
\* HTTP call or by a non-2xx response, the flush still resets every
\* accumulator to (0,0), sets last to the current time and clears wakeup_due
C5_FailedWriteResets ==
    \A s \in Subjects :
        out[s] \in {"failed", "non2xx"} =>
            /\ HasRecord(s)
            /\ AccZero(s)
            /\ states[s].last = clock
            /\ states[s].wakeup_due = 0

\* C1: any two write requests sent to the sink for one subject are at least
\* MinPeriod apart in time
C1_WritesMinPeriodApart ==
    \A s \in Subjects :
        \A i \in 1..Len(wtimes[s]) : \A j \in 1..Len(wtimes[s]) :
            i < j => wtimes[s][j] - wtimes[s][i] >= MinPeriod

\* C2: with credentials available and no flush before, the telemetry event
\* that follows the first flush of a subject by less than MinPeriod sends
\* nothing, so the second write of a subject that a message causes is at least
\* MinPeriod after the first; and an event MinPeriod or more after the only
\* flush is not held back
C2_RateLimit ==
    \A s \in Subjects :
        /\ (by.h = "msg" /\ out[s] \in SentKinds /\ Len(wtimes[s]) = 2)
              => wtimes[s][2] >= wtimes[s][1] + MinPeriod
        /\ (by.h = "msg" /\ out[s] = "ratelimited" /\ Len(wtimes[s]) = 1)
              => clock < wtimes[s][1] + MinPeriod

\* C6: a wakeup_due that a flush attempt has consumed, successful or not, is
\* cleared by that attempt, so that it cannot fire again
C6_DeadlineConsumedOnce ==
    \A s \in Subjects :
        out[s] \in FlushKinds => HasRecord(s) /\ states[s].wakeup_due = 0

RECURSIVE FloatSum(_)
FloatSum(w) == IF w = <<>> THEN 0 ELSE FAdd(FloatSum(SubSeq(w, 1, Len(w) - 1)), w[Len(w)])

RECURSIVE ExactSum(_)
ExactSum(w) == IF w = <<>> THEN 0 ELSE w[1] + ExactSum(Tail(w))

\* the readings in every arrival order
Orders(w) == {[i \in DOMAIN w |-> w[p[i]]] : p \in Permutations(DOMAIN w)}

\* every partial sum of the (non-negative) readings, in every order, is a float
SumsExact(w) == ExactSum(w) < 2 ^ MantBits

\* the subjects and fields of which the request just sent averaged readings
Averaged == {x \in Subjects \X AccFields :
                out[x[1]] \in SentKinds /\ sentWin[x[1]][x[2]] # <<>>}

FellBack == {x \in Subjects \X AccFields :
                /\ out[x[1]] \in SentKinds
                /\ sentWin[x[1]][x[2]] = <<>>
                /\ x[2] \in DOMAIN prevParams[x[1]]}

\* C8 as the specification states it: with no reading of f in the window and
\* a value of f in the prior flush, the next flush carries f with the value
\* of the prior flush
C8_FallbackToPriorFlush ==
    \A x \in FellBack :
        /\ x[2] \in DOMAIN lastParams[x[1]]
        /\ lastParams[x[1]][x[2]] = prevParams[x[1]][x[2]]

\* C8, amended: the next flush carries f with the last reading received,
\* vals[f], which is the value of the prior flush only if that flush averaged
\* a window whose rounded mean is its last reading
C8_FallbackToLastReading ==
    \A x \in FellBack :
        /\ x[2] \in DOMAIN lastParams[x[1]]
        /\ lastParams[x[1]][x[2]] = states[x[1]].vals[x[2]].n

\* a flush without a reading of temp follows a flush that averaged two
\* readings, and carries the later reading, not the average
C8_Witness ==
    \E x \in FellBack :
        /\ prevParams[x[1]][x[2]] = 2
        /\ lastParams[x[1]][x[2]] = 1

\* what the bridge holds for subject b
Rec(b) ==
    [present |-> b \in DOMAIN states,
     st |-> Get(states, b, NewState),
     alerts |-> Get(alert_counts, b, 0)]

\* C9: a message of subject A, or a tick that finds only other subjects due,
\* leaves the record and the alert count of subject B unchanged and sends no
\* write for B
C9_SubjectIsolation ==
    [][\A b \in Subjects :
          (\/ by'.h = "msg" /\ by'.key # b
           \/ by'.h = "tick" /\ b \notin DueKeys(clock'))
          => /\ Rec(b)' = Rec(b)
             /\ wtimes'[b] = wtimes[b]
             /\ out'[b] \notin FlushKinds]_vars

\* a message of one subject was flushed while another subject holds readings
\* and a deadline of its own
C9_Witness ==
    \E a \in Subjects : \E b \in Subjects \ {a} :
        /\ by.h = "msg" /\ by.key = a /\ out[a] \in SentKinds
        /\ HasRecord(b)
        /\ states[b].acc["temp"].count > 0
        /\ states[b].wakeup_due > 0

\* C10: when the tick and a message-triggered flush race on one subject, at
\* most one write is sent for the subject for one eligibility, so the two
\* threads never both hold a request of the subject, and once both have
\* finished the accumulators are zero and wakeup_due is cleared
C10_RaceIsSafe ==
    \A s \in Subjects :
        /\ ~Overlap(race, s)
        /\ (race.raced = s /\ race.io.pc = "idle" /\ race.main.pc # "posting")
              => AccZero(s) /\ states[s].wakeup_due = 0

\* C19: credential resolution returns the cached entry without calling the
\* catalog when the key is cached; on a miss it calls the catalog once, caches
\* and returns a positive result, and on an error or empty result returns
\* absent without adding a cache entry
C19_ResolveThroughCache ==
    \A s \in Subjects : \A ans \in CatalogAnswers :
        LET r == GetTsCreds(user_api, s, ans)
        IN  IF s \in DOMAIN user_api
            THEN r.creds = user_api[s] /\ ~r.called /\ r.cache = user_api
            ELSE /\ r.called
                 /\ IF ans = "found"
                    THEN /\ r.creds # NoCreds
                         /\ r.cache = Put(user_api, s, r.creds)
                    ELSE r.creds = NoCreds /\ r.cache = user_api

\* C11: under every interleaving of a message handler that accumulates a
\* reading and a flush of the same subject, the reading is carried by a
\* request or is still in the accumulators after the flush's reset: no reset
\* zeroes a reading that no request has carried
C11_NoReadingLost == race.lost = {}

\* C12 as the specification states it: on every tick, every known subject
\* that the eligibility rule of the message path admits (deadline set and
\* reached, or MinPeriod elapsed since last) is flushed
C12_TickFlushesEligible ==
    [][by'.h = "tick" =>
         \A s \in DOMAIN states :
             Eligible(states[s], clock') => out'[s] \in FlushKinds \cup {"nocreds"}]_vars

\* C12: on every tick, every known subject whose deadline is set and reached
\* is flushed (or, without credentials, dropped), and the record of every
\* other known subject is left as it was, whatever the time since its last
\* flush
C12_TickFlushesDueOnly ==
    [][by'.h = "tick" =>
         \A s \in DOMAIN states :
             IF states[s].wakeup_due > 0 /\ clock' >= states[s].wakeup_due
             THEN /\ out'[s] \in FlushKinds \cup {"nocreds"}
                  /\ out'[s] = "nocreds" => s \notin DOMAIN user_api
             ELSE out'[s] = "none" /\ states'[s] = states[s]]_vars

\* a tick has passed over a subject that holds readings and whose last flush
\* is MinPeriod or more ago, because no deadline is set
C12_Witness ==
    \E s \in Subjects :
        /\ by.h = "tick" /\ HasRecord(s) /\ out[s] = "none"
        /\ states[s].wakeup_due = 0
        /\ states[s].acc["temp"].count > 0
        /\ clock - states[s].last >= MinPeriod

\* C13: when an eligible flush resolves no value for any output field, no
\* request is sent to the sink (the subject has none to its name, and every
\* request sent carries at least one field), wakeup_due is cleared and last is
\* the current time
C13_EmptyFlushSkipsWrite ==
    \A s \in Subjects :
        /\ out[s] = "skipped" =>
               /\ HasRecord(s)
               /\ DOMAIN PayloadValues(states[s]) = {}
               /\ wtimes[s] = <<>>
               /\ states[s].last = clock
               /\ states[s].wakeup_due = 0
        /\ out[s] \in SentKinds => DOMAIN lastParams[s] # {}

\* a tick finds the deadline of a subject without any value reached and
\* skips the write
C13_Witness ==
    \E s \in Subjects :
        /\ by.h = "tick" /\ out[s] = "skipped" /\ pend[s].is = "served"
        /\ states[s].last = clock /\ wtimes[s] = <<>>

\* C14: when the credentials of a subject cannot be resolved at a flush
\* attempt, on the message path or on the tick path, no write is sent for the
\* subject, nothing is cached, and last is the current time, so that until
\* MinPeriod has passed the scheduler finds the subject eligible only by a
\* deadline set and reached
C14_NoCredsAdvancesTimer ==
    \A s \in Subjects :
        out[s] = "nocreds" =>
            /\ HasRecord(s)
            /\ s \notin DOMAIN user_api
            /\ wtimes[s] = <<>>
            /\ states[s].last = clock
            /\ by.h = "tick" => states[s].wakeup_due = 0
            /\ \A t \in clock .. clock + MinPeriod - 1 :
                   SendPeriodic(states[s], t, "ok").kind # "ratelimited"
                       => states[s].wakeup_due > 0 /\ t >= states[s].wakeup_due

\* a message with readings found no credentials and, no deadline being set,
\* the subject is rate-limited from now on
C14_Witness ==
    \E s \in Subjects :
        /\ by.h = "msg" /\ by.key = s /\ out[s] = "nocreds"
        /\ states[s].acc["temp"].count > 0
        /\ states[s].wakeup_due = 0
        /\ SendPeriodic(states[s], clock + MinPeriod - 1, "ok").kind = "ratelimited"

\* C15: a wakeup message for a subject at time now sets wakeup_due to the
\* later of now and last + MinPeriod: while the request waits for the tick
\* the deadline of the record is that time, and when the handler that set it
\* ends (having resolved credentials) it is neither earlier than now nor
\* earlier than last + MinPeriod
C15_WakeupDeadline ==
    \A s \in Subjects :
        pend[s].is = "waiting" =>
            /\ HasRecord(s)
            /\ states[s].wakeup_due = pend[s].due
            /\ (by.h = "msg" /\ by.key = s /\ out[s] # "nocreds") =>
                   /\ states[s].wakeup_due = Max(clock, states[s].last + MinPeriod)
                   /\ states[s].wakeup_due >= states[s].last + MinPeriod

\* a wakeup message one clock unit after a flush sets the deadline to
\* last + MinPeriod, later than now
C15_Witness ==
    \E s \in Subjects :
        /\ by.h = "msg" /\ by.key = s /\ by.ev = "wakeup"
        /\ pend[s].is = "waiting"
        /\ states[s].last = clock - 1
        /\ states[s].wakeup_due = states[s].last + MinPeriod
        /\ states[s].wakeup_due > clock

\* C16: an initTimeshift message for a subject sets its alert count to 0, its
\* last-known "alerts" value to 0 and its wakeup_due to 0, leaves the
\* accumulators, the other last-known values and last of its record as they
\* were, leaves every other record alone and sends no write
C16_InitTimeshiftFrame ==
    [][by'.ev = "init" =>
         LET s == by'.key
             old == Get(states, s, NewState)
         IN  /\ s \in DOMAIN states'
             /\ alert_counts'[s] = 0
             /\ states'[s].vals["alerts"] = Num(0)
             /\ states'[s].wakeup_due = 0
             /\ states'[s].acc = old.acc
             /\ states'[s].last = old.last
             /\ \A f \in Tracked \ {"alerts"} : states'[s].vals[f] = old.vals[f]
             /\ \A t \in DOMAIN states \ {s} : states'[t] = states[t]
             /\ wtimes' = wtimes]_vars

\* a window reset of a subject that has flushed before and holds a reading
\* since
C16_Witness ==
    \E s \in Subjects :
        /\ by.ev = "init" /\ by.key = s
        /\ states[s].last > 0
        /\ states[s].acc["temp"].count > 0
        /\ states[s].vals["alerts"] = Num(0) /\ alert_counts[s] = 0

C18_SoftRejectionNotRetried ==
    \A s \in Subjects :
        /\ out[s] = "rejected" =>
               /\ HasRecord(s) /\ AccZero(s)
               /\ states[s].last = clock
               /\ states[s].wakeup_due = 0
               /\ wkinds[s] # <<>>
               /\ wkinds[s][Len(wkinds[s])] = "rejected"
               /\ wtimes[s][Len(wtimes[s])] = clock
               /\ SendPeriodic(states[s], clock, "ok").kind = "ratelimited"
        /\ \A i \in 1 .. Len(wkinds[s]) - 1 :
               wkinds[s][i] = "rejected" => wtimes[s][i + 1] >= wtimes[s][i] + MinPeriod

\* a write was soft-rejected and the next write of the subject went out
\* MinPeriod later
C18_Witness ==
    \E s \in Subjects :
        /\ Len(wkinds[s]) = 2 /\ wkinds[s][1] = "rejected"
        /\ wtimes[s][2] = wtimes[s][1] + MinPeriod
        /\ out[s] \in SentKinds

\* ------------------------------------------- a day in the life of a subject
\* Subject Main, credentials loaded, no flush before: a temperature reading
\* when the bridge starts, a second reading and the state of an actuator
\* within MinPeriod of it, then whatever comes next: a wakeup request, a
\* further state of the actuator or a further reading. The sink answers as
\* it likes, and the ticks fall where they fall.
ScenarioMsgs == 4

ScenarioEvents(i) ==
    IF i \in {0, 1} THEN {Msg(TeleTopic(Main), TempPack(<<v>>)) : v \in {1, 4}}
    ELSE IF i = 2 THEN {Msg(LedTopic(Main), SenML(<<Measure(<<"LedL">>, Bool(TRUE))>>))}
    ELSE {Msg(WakeTopic(Main), Json(TRUE, <<>>)),
          Msg(LedTopic(Main), SenML(<<Measure(<<"LedL">>, Bool(TRUE))>>)),
          Msg(LedTopic(Main), SenML(<<Measure(<<"LedL">>, Bool(FALSE))>>)),
          Msg(TeleTopic(Main), TempPack(<<4>>))}

\* the first event comes at the start, the next two within MinPeriod of it
ScenarioEvent ==
    /\ msgs < ScenarioMsgs
    /\ msgs = 0 => clock = StartTime
    /\ msgs \in {1, 2} => clock < StartTime + MinPeriod
    /\ \E m \in ScenarioEvents(msgs) : \E resp \in ResponsesFor(m, "error") :
           Handle(m, "error", resp)

ScenarioInit == Init /\ user_api = [k \in Subjects |-> CredsOf(k[1], "None")]

ScenarioNext ==
    \/ ScenarioEvent
    \/ Tick

SpecScenario == ScenarioInit /\ [][ScenarioNext]_vars

\* the sink answered the first write of the scenario
FirstAnswered == wkinds[Main] # <<>> /\ wkinds[Main][1] # "failed"

\* the first three events of the scenario, as the code and the specification
\* have them: the first reading is flushed at once and the accumulator
\* reset; the second reading and the actuator state send nothing, and the
\* accumulator holds the second reading alone
ScenarioOpening ==
    /\ (msgs = 1 /\ by.h = "msg") =>
           /\ out[Main] \in SentKinds
           /\ wtimes[Main] = <<StartTime>>
           /\ lastParams[Main] = ("temp" :> sentWin[Main]["temp"][1])
           /\ FirstAnswered => states[Main].acc["temp"] = ZeroAcc
    /\ (msgs = 2 /\ by.h = "msg" /\ FirstAnswered) =>
           /\ out[Main] = "ratelimited"
           /\ Len(win[Main]["temp"]) = 1
           /\ states[Main].acc["temp"] = [sum |-> win[Main]["temp"][1], count |-> 1]
    /\ (msgs = 3 /\ by.h = "msg" /\ FirstAnswered) =>
           /\ out[Main] = "ratelimited"
           /\ states[Main].vals["LedL"] = Bool(TRUE)
           /\ states[Main].acc["temp"] = [sum |-> win[Main]["temp"][1], count |-> 1]
           /\ Len(wtimes[Main]) = 1

C21_NoErrorIsFatal ==
    /\ fault.dead = {}
    /\ fault.caught \subseteq {"parse", "alertjson", "creds", "post", "onmsg"}
    /\ by.h = "tick" => "onmsg" \notin fault.caught
    /\ clock < StartTime + Horizon => CanTick

\* an alert-topic message with a JSON value that has no "get" raised outside
\* every inner try block; the handler returned and the tick can run
C21_Witness ==
    /\ by.h = "msg" /\ by.ev = "caught"
    /\ fault = [caught |-> {"onmsg"}, dead |-> {}]
    /\ clock > StartTime
    /\ CanTick

\* --------------------------------------------------- the spelling of topics
\* Topics that name, or seem to name, the subject (U1, R1): well-formed ones,
\* with a leading slash, with nothing after the room, in another letter case,
\* with a doubled slash inside, without the slash after the room, with too
\* few segments, and with another root.
TopicMsgs == 2

TopicSpellings ==
    {<<"SC", "U1", "R1", "sensors">>,
     <<"", "SC", "U1", "R1", "sensors">>,
     <<"SC", "U1", "R1", "">>,
     <<"SC", "u1", "R1", "sensors">>,
     <<"SC", "", "U1", "R1", "sensors">>,
     <<"SC", "U1", "R1">>,
     <<"SC", "U1">>,
     <<"sc", "U1", "R1", "sensors">>,
     <<"XX", "U1", "R1", "initTimeshift">>,
     <<"XX", "U1", "R1", "wakeup">>,
     <<"SC", "alerts", "U1", "R1">>,
     <<"SC", "alerts", "U1">>}

TopicMessages ==
    {Msg(t, pl) : t \in TopicSpellings,
                  pl \in {TempPack(<<1>>), Json(TRUE, <<"ALERT">>),
                         BadPack(TempPack(<<4>>).e)}}

TopicEvent ==
    /\ msgs < TopicMsgs
    /\ \E m \in TopicMessages :
         \E ans \in AnswersFor(m) : \E resp \in ResponsesFor(m, ans) :
            Handle(m, ans, resp)

TopicNext ==
    \/ TopicEvent
    \/ Tick

SpecTopics == Init /\ [][TopicNext]_vars

\* str.lower on the names of the model
Lower(str) == IF str = "U1" THEN "u1" ELSE IF str = "R1" THEN "r1" ELSE str

RECURSIVE Squeeze(_)
\* a topic without its empty segments: slashes doubled, leading or trailing
Squeeze(topic) ==
    IF topic = <<>> THEN <<>>
    ELSE IF Head(topic) = "" THEN Squeeze(Tail(topic))
    ELSE <<Head(topic)>> \o Squeeze(Tail(topic))

\* two record keys that name one subject, letter case apart
SameSubject(a, b) == Lower(a[1]) = Lower(b[1]) /\ Lower(a[2]) = Lower(b[2])

\* the subject a topic names once its extra slashes are gone: SC/<user>/<room>
\* or SC/alerts/<user>/<room>
Names(topic, key) ==
    LET t == Squeeze(topic)
    IN  \/ Len(t) >= 3 /\ t[1] = "SC" /\ t[2] # "alerts"
           /\ SameSubject(<<t[2], t[3]>>, key)
        \/ Len(t) >= 4 /\ t[1] = "SC" /\ t[2] = "alerts"
           /\ SameSubject(<<t[3], t[4]>>, key)

\* C22: at most one record exists per subject: no two records have keys that
\* differ in letter case only, and a message whose topic names the subject
\* Main, extra slashes and letter case apart, is handled on the record of Main
C22_OneRecordPerSubject ==
    /\ \A a \in DOMAIN states : \A b \in DOMAIN states : SameSubject(a, b) => a = b
    /\ (by.h = "msg" /\ Names(by.msg.topic, Main)) => by.key = Main

\* C28: a message whose topic has another root than SC, or too few segments
\* for a user and a room, is ignored: no record is made, no record, counter
\* or cache entry is changed and no write is sent
C28_MalformedTopicIgnored ==
    [][(by'.h = "msg"
        /\ LET t == LStrip(by'.msg.topic)
           IN  \/ t[1] # "SC"
               \/ Len(t) < 3
               \/ t[2] = "alerts" /\ Len(t) < 4)
       => /\ by'.ev = "ignored"
          /\ UNCHANGED <<states, user_api, window_counts, alert_counts, wtimes>>
          /\ \A s \in Subjects : out'[s] = "none"]_vars

\* a window reset under a wrong root came after a reading was accumulated,
\* and the record still holds the reading and its alert count
C28_Witness ==
    /\ by.h = "msg" /\ by.ev = "ignored"
    /\ by.msg.topic = <<"XX", "U1", "R1", "initTimeshift">>
    /\ HasRecord(Main)
    /\ states[Main].vals["temp"] # None

\* C23: a record whose wakeup_due is set and reached is eligible whatever
\* the time since last: at every time from the deadline on, _send_periodic
\* does not rate-limit it and the tick attempts it, also when last was
\* advanced after the deadline was set; and no tick leaves a reached deadline
\* waiting, except by a write that raised
C23_DeadlineOverridesRateLimit ==
    \A s \in Subjects :
        /\ HasRecord(s) =>
              \A t \in clock .. clock + MinPeriod :
                  (states[s].wakeup_due > 0 /\ t >= states[s].wakeup_due) =>
                      /\ SendPeriodic(states[s], t, "ok").kind \in FlushKinds
                      /\ TickOne(Prog, s, t, "error", "ok").obs.kind
                             \in FlushKinds \cup {"nocreds"}
        /\ (by.h = "tick" /\ pend[s].is = "waiting" /\ clock >= pend[s].due)
              => out[s] = "failed"

\* the only message so far, a wakeup with a reading, set the deadline of a
\* fresh subject to its own time and, for want of credentials, advanced last
\* to that time; one clock unit later, within MinPeriod of last, the tick
\* attempted the subject
C23_Witness ==
    \E s \in Subjects :
        /\ msgs = 1 /\ by.h = "tick" /\ MinPeriod > 1
        /\ out[s] = "nocreds"
        /\ states[s].vals["temp"] # None
        /\ pend[s] = [is |-> "dropped", due |-> clock - 1]

\* C24: when a message with readings is handled for a subject whose record,
\* after the aggregation step, has neither a deadline reached nor MinPeriod
\* elapsed since last, no write is sent and the record stays as the
\* aggregation step left it, whether or not credentials resolve
C24_RateLimitedFrame ==
    [][(by'.h = "msg" /\ by'.ev = "telemetry") =>
         LET s == by'.key
             agg == Accumulated(Prog, by'.msg.topic, by'.msg.payload, clock).states[s]
         IN  ~Eligible(agg, clock) =>
                 /\ wtimes' = wtimes
                 /\ states'[s] = agg]_vars

\* the record of subject s that the flush of the step reads: for a message,
\* the record after the aggregation step; for a tick, the record as it is
FlushedRecord(s) ==
    IF by'.h = "msg"
    THEN Accumulated(Prog, by'.msg.topic, by'.msg.payload, clock).states[s]
    ELSE states[s]

\* the output fields with a value in record st
FieldsWithValue(st) ==
    {f \in FieldsMap : \/ f \in AccFields /\ st.acc[f].count > 0
                       \/ Get(st.vals, f, None) # None}

\* C25: the parameters of every write request are, for each configured output
\* field: round(sum/count, 2) if the field is averageable with count > 0,
\* otherwise its last known value if there is one (a boolean as 1 or 0),
\* otherwise nothing; and no other field is among them
C25_PayloadContents ==
    [][\A s \in Subjects :
         Len(wtimes'[s]) > Len(wtimes[s]) =>
            LET st == FlushedRecord(s)
            IN  /\ DOMAIN lastParams'[s] = FieldsWithValue(st)
                /\ DOMAIN lastParams'[s] \subseteq FieldsMap
                /\ \A f \in DOMAIN lastParams'[s] :
                      lastParams'[s][f] =
                         IF f \in AccFields /\ st.acc[f].count > 0
                         THEN Round2(st.acc[f].sum, st.acc[f].count)
                         ELSE IF f \in Actuators
                         THEN (IF st.vals[f] = Bool(TRUE) THEN Unit ELSE 0)
                         ELSE st.vals[f].n]_vars

\* a request went out with an average of this window's readings and an
\* actuator's state, and another with a fallback to the last reading, while
\* the fields never seen are in neither
C25_Witness ==
    \E s \in Subjects :
        /\ Len(wtimes[s]) = 2
        /\ DOMAIN lastParams[s] = {"temp", "LedL"}
        /\ lastParams[s]["LedL"] = Unit
        /\ \/ sentWin[s]["temp"] # <<>> /\ DOMAIN prevParams[s] = {"LedL"}
           \/ sentWin[s]["temp"] = <<>> /\ DOMAIN prevParams[s] = {"temp"}

\* C26: a flush, whatever its outcome, leaves every last known value of the
\* subject as it was: after a tick the values of every record are those before
\* it, after a message with readings they are those of the aggregation step
C26_FlushKeepsLastKnown ==
    [][/\ by'.h = "tick" =>
            \A s \in DOMAIN states : states'[s].vals = states[s].vals
       /\ (by'.h = "msg" /\ by'.ev = "telemetry") =>
            states'[by'.key].vals = FlushedRecord(by'.key).vals]_vars

\* the second write request of a subject was sent by a tick's flush, which
\* reset the accumulators and left the last reading in place
C26_Witness ==
    \E s \in Subjects :
        /\ HasRecord(s)
        /\ out[s] \in DoneKinds
        /\ by.h = "tick"
        /\ Len(wtimes[s]) = 2
        /\ states[s].acc["temp"].count = 0
        /\ states[s].vals["temp"] # None

\* no reading or actuator state of subject s has been stored yet
NothingStored(s) ==
    HasRecord(s) => \A f \in Tracked \ {"alerts"} : states[s].vals[f] = None

\* the step handles a message with readings for a subject with cached
\* credentials and nothing stored, and stores a value
FirstTelemetry ==
    /\ by'.h = "msg" /\ by'.ev = "telemetry"
    /\ by'.key \in DOMAIN user_api
    /\ NothingStored(by'.key)
    /\ \E f \in Tracked : FlushedRecord(by'.key).vals[f] # None

\* a message that changes nothing in a record made a new record
MadeRecord(s) ==
    /\ ~HasRecord(s)
    /\ by'.h = "msg" /\ by'.key = s
    /\ by'.ev \in {"dropped", "noalert", "caught"}

\* C27, as stated: the first message with readings of a subject, with
\* credentials available and a tracked value decoded, is always followed by a
\* write request at once
C27_FirstEventFlushed ==
    [][FirstTelemetry => out'[by'.key] \in SentKinds]_vars

\* C27, amended: a new record has last 0, no deadline, accumulators (0, 0) and
\* no last known value; and the first message with readings of a subject whose
\* record is new or still has last 0, with credentials available and a tracked
\* value decoded, is followed by a write request at once
C27_NewRecordFlushed ==
    [][/\ \A s \in Subjects : MadeRecord(s) =>
             /\ states'[s].last = 0 /\ states'[s].wakeup_due = 0
             /\ \A f \in AccFields : states'[s].acc[f] = [sum |-> 0, count |-> 0]
             /\ \A f \in Tracked : states'[s].vals[f] = None
       /\ (FirstTelemetry /\ (HasRecord(by'.key) => states[by'.key].last = 0)) =>
             out'[by'.key] \in SentKinds]_vars

\* a subject's record was made by an alert message, and its first message
\* with readings was then sent on at once
C27_Witness ==
    \E s \in Subjects :
        /\ msgs = 2 /\ by.h = "msg" /\ by.ev = "telemetry" /\ by.key = s
        /\ s \in DOMAIN alert_counts
        /\ out[s] \in SentKinds
        /\ wtimes[s] = <<clock>>
        /\ pend[s] = NoRequest
        /\ states[s].last = clock

\* the record of key k in S, a key without a record standing for a new one
RecordOf(S, k) == IF k \in DOMAIN S THEN S[k] ELSE NewState

\* C29: a message on a valid telemetry topic whose payload is not a list of
\* records is dropped: every record's accumulators, last known values, last
\* and deadline are as before (none of the entries it holds is applied), the
\* alert and window counts and the credentials are as before, and no write
\* request is sent
C29_MalformedPayloadDropped ==
    [][(/\ by'.h = "msg"
        /\ by'.msg.payload.kind # "senml"
        /\ ParseTopic(by'.msg.topic).ok
        /\ ~StartsWithAlerts(by'.msg.topic)
        /\ ~EndsWith(by'.msg.topic, "wakeup")
        /\ ~EndsWith(by'.msg.topic, "initTimeshift")) =>
          /\ by'.ev = "dropped"
          /\ \A k \in DOMAIN states' : states'[k] = RecordOf(states, k)
          /\ DOMAIN states' \subseteq DOMAIN states \cup {by'.key}
          /\ UNCHANGED <<alert_counts, window_counts, user_api, wtimes, win>>
          /\ \A s \in Subjects : out'[s] = "none"]_vars

\* a list whose second item is no record was dropped while the subject had a
\* reading accumulated and not yet sent
C29_Witness ==
    /\ by.h = "msg" /\ by.ev = "dropped" /\ by.key = Main
    /\ by.msg.payload.kind = "badpack" /\ by.msg.payload.e # <<>>
    /\ states[Main].acc["temp"] = [sum |-> 1, count |-> 1]
    /\ fault.caught = {"parse"} /\ fault.dead = {}

\* ------------------------------------------------- the values of a reading
\* messages delivered in the runs that vary the value of a reading
ValueMsgs == 2

\* one reading of an averageable field per message: a number, a boolean or a
\* string, under a name with a base name and under the alias "raw"
\* one reading per message of a field that is not averaged: an actuator, the
\* alert count, a name the record does not track, and the name "ServoDHT"
FieldMessages ==
    {Msg(TeleTopic(Main), SenML(<<Measure(name, v)>>)) :
        name \in {<<"dev1", "servoFan">>, <<"alerts">>, <<"dev1", "co2">>,
                  <<"ServoDHT">>},
        v \in {Num(4)}}

ValueMessages ==
    {Msg(TeleTopic(Main), SenML(<<Measure(name, v)>>)) :
        name \in {<<"dev1", "temp">>, <<"raw">>},
        v \in {Num(1), Num(4), Bool(TRUE), Str("21")}}
    \cup FieldMessages

ValueEvent ==
    /\ msgs < ValueMsgs
    /\ \E m \in ValueMessages :
         \E ans \in AnswersFor(m) : \E resp \in ResponsesFor(m, ans) :
            Handle(m, ans, resp)

ValueNext ==
    \/ ValueEvent
    \/ Tick

SpecValues == Init /\ [][ValueNext]_vars

\* the averageable field a reading's name stands for
FieldOf(m) ==
    LET last == m.n[Len(m.n)] IN IF last = "raw" THEN "light" ELSE last

\* C30: for a reading of an averageable tracked field, a numeric value adds to
\* the field's sum, adds 1 to its count and becomes its last known value; a
\* value that is not numeric (a boolean, a string) leaves all three as they were
C30_AccumulateNumericOnly ==
    [][(by'.h = "msg" /\ by'.ev = "telemetry" /\ Len(by'.msg.payload.e) = 1
        /\ FieldOf(by'.msg.payload.e[1]) \in AccFields) =>
          LET m == by'.msg.payload.e[1]
              f == FieldOf(m)
              pre == RecordOf(states, by'.key)
              post == FlushedRecord(by'.key)
          IN  IF m.v.t = "num"
              THEN /\ post.acc[f].sum = FAdd(pre.acc[f].sum, FRound(m.v.n))
                   /\ post.acc[f].count = pre.acc[f].count + 1
                   /\ post.vals[f] = Num(FRound(m.v.n))
              ELSE /\ post.acc[f] = pre.acc[f]
                   /\ post.vals[f] = pre.vals[f]]_vars

\* C31: a reading of a tracked field that is not averaged changes nothing but
\* that field's last known value; a reading whose name is not a tracked field
\* changes nothing in the record: no accumulator, no last known value, and no
\* key is added
C31_UntrackedIgnored ==
    [][(by'.h = "msg" /\ by'.ev = "telemetry" /\ Len(by'.msg.payload.e) = 1
        /\ FieldOf(by'.msg.payload.e[1]) \notin AccFields) =>
          LET f == FieldOf(by'.msg.payload.e[1])
              pre == RecordOf(states, by'.key)
              post == FlushedRecord(by'.key)
          IN  /\ post.acc = pre.acc
              /\ DOMAIN post.vals = DOMAIN pre.vals
              /\ \A g \in DOMAIN pre.vals \cap DOMAIN post.vals :
                    (g # f \/ f \notin Tracked) => post.vals[g] = pre.vals[g]]_vars

\* ------------------------------------------------------ the alert window
\* messages delivered in the runs about the alert window of one subject
AlertMsgs == 3

\* a window reset, alert-topic messages with and without an ALERT event, a
\* wakeup request, a reading, and a reading under the name "alerts"
AlertMessages ==
    {Msg(InitTopic(Main), Json(TRUE, <<>>)),
     Msg(AlertTopic(Main), Json(TRUE, <<"ALERT">>)),
     Msg(AlertTopic(Main), Json(TRUE, <<"OK">>)),
     Msg(WakeTopic(Main), Json(TRUE, <<>>)),
     Msg(TeleTopic(Main), TempPack(<<1>>)),
     Msg(TeleTopic(Main), SenML(<<Measure(<<"alerts">>, Num(4))>>))}

AlertEvent ==
    /\ msgs < AlertMsgs
    /\ \E m \in AlertMessages :
         \E ans \in AnswersFor(m) : \E resp \in ResponsesFor(m, ans) :
            Handle(m, ans, resp)

AlertNext ==
    \/ AlertEvent
    \/ Tick

SpecAlerts == Init /\ [][AlertNext]_vars

\* message m carries a numeric reading under the name "alerts"
HasAlertsReading(m) ==
    \E i \in DOMAIN m.payload.e :
        /\ m.payload.e[i].n # <<>>
        /\ FieldOf(m.payload.e[i]) = "alerts"
        /\ IsNumber(m.payload.e[i].v)

C33_NoCredsDropsRequest ==
    \A s \in Subjects :
        /\ (by.h = "tick" /\ out[s] = "nocreds") =>
               /\ states[s].wakeup_due = 0
               /\ states[s].last = clock
               /\ \A i \in DOMAIN wtimes[s] : wtimes[s][i] < clock
               /\ pend[s].is \in {"dropped", "none"}
        /\ pend[s].is = "dropped" =>
               /\ states[s].wakeup_due = 0
               /\ states[s].last = pend[s].due \/ states[s].last = pend[s].due + 1
               /\ by.h = "tick" => out[s] \in {"none", "nocreds"}
               /\ (by.h = "tick" /\ clock > states[s].last) => out[s] = "none"
               /\ \A i \in DOMAIN wtimes[s] : wtimes[s][i] < states[s].last

\* the tick after the one that dropped a wakeup request for lack of
\* credentials has left the subject alone
C33_Witness ==
    \E s \in Subjects :
        /\ pend[s].is = "dropped"
        /\ by.h = "tick" /\ out[s] = "none"
        /\ clock = states[s].last + 1
        /\ s \notin DOMAIN user_api

\* C34: handling a message on an alert topic that names a subject sends no
\* write request and leaves the subject's accumulators, last, deadline and
\* every last known value other than "alerts" as they were
C34_AlertFrame ==
    [][(by'.h = "msg" /\ StartsWithAlerts(by'.msg.topic)
        /\ ParseTopic(by'.msg.topic).ok) =>
          LET pre == RecordOf(states, by'.key)
              post == states'[by'.key]
          IN  /\ wtimes' = wtimes
              /\ post.acc = pre.acc
              /\ post.last = pre.last
              /\ post.wakeup_due = pre.wakeup_due
              /\ \A f \in Tracked \ {"alerts"} : post.vals[f] = pre.vals[f]]_vars

\* the last known "alerts" value of subject s in records S is its count in C
AlertsInStep(S, C, s) ==
    /\ s \in DOMAIN C /\ s \in DOMAIN S
    /\ S[s].vals["alerts"] = Num(C[s] * Unit)

C36_LastNeverDecreases ==
    [][\A s \in DOMAIN states : states'[s].last >= states[s].last]_vars


\* C38: for every subject, the per-window sent counter equals the number of
\* sink writes of the subject that were answered with something other than
\* the soft-rejection marker since the subject's last window reset
C38_SentCounter ==
    \A s \in Subjects : Get(window_counts, s, 0) = race.counted[s]

\* C38, one handler at a time: a handler sets the counter of a subject to 0
\* when it is the subject's initTimeshift, raises it by one when it sent a
\* write for the subject that was answered with something other than "0",
\* and leaves it alone otherwise (soft-rejected, failed, skipped and
\* credential-less flushes included)
C38_CountsPerHandler ==
    [][\A s \in Subjects :
         LET before == Get(window_counts, s, 0)
             after == Get(window_counts', s, 0)
         IN  IF by'.h = "msg" /\ EndsWith(by'.msg.topic, "initTimeshift")
                /\ ParseTopic(by'.msg.topic).ok
                /\ <<ParseTopic(by'.msg.topic).user, ParseTopic(by'.msg.topic).room>> = s
             THEN after = 0
             ELSE IF out'[s] \in {"accepted", "non2xx"} THEN after = before + 1
             ELSE after = before]_vars

\* ------------------------------------------------- the TimeShift service
\* iterations of the service loop in a run
TsIters == 3

\* the minutes of a day, scaled: now.hour * 60 + now.minute
DayLen == 4

\* the sleep and wake times a user's catalog record may hold: none, a sleep
\* window inside the day, and one that wraps around midnight
TimeChoices == {NoTimes, [sleep |-> 1, wake |-> 3], [sleep |-> 3, wake |-> 1]}

\* the methods of the CatalogClient of common.catalog_client, the one
\* timeshift.py imports and constructs
CatHas(method) == method \in {"get", "broker", "service", "users_map_api_keys"}

\* _user_times: self.cat.get_user raises AttributeError on a client without
\* the method, and the except clause returns (None, None)
UserTimes(user, cat) == IF CatHas("get_user") THEN cat[user] ELSE NoTimes

InSleepWindow(now_min, sleep_min, wake_min) ==
    IF sleep_min < wake_min
    THEN sleep_min <= now_min /\ now_min < wake_min
    ELSE now_min >= sleep_min \/ now_min < wake_min

\* the phase that times give at minute now: "none" without times
PhaseAt(times, now) ==
    IF times = NoTimes THEN "none"
    ELSE IF InSleepWindow(now, times.sleep, times.wake) THEN "night" ELSE "day"

desired_phase(user, now, cat) == PhaseAt(UserTimes(user, cat), now)

\* the topics do_bedtime publishes on, in order
BedtimeSeq == <<"bedtime", "sampling", "servoV", "LedL">>
\* the topics do_wakeup publishes on, in order
WakeupSeq == <<"wakeup", "LedL", "servoV", "sampling">>

\* do_wakeup: after pub_wakeup, light_needs_led calls self.cat.user_thresholds,
\* which raises on a client without the method, and nothing catches it
\* before the loop of run does
do_wakeup == IF CatHas("user_thresholds") THEN WakeupSeq ELSE <<"wakeup">>

RECURSIVE TsLoop(_, _)
\* the for loop of run over the pairs todo; an exception ends it
TsLoop(T, todo) ==
    IF todo = {} THEN T
    ELSE LET k == CHOOSE x \in todo : TRUE
             phase == desired_phase(k[1], T.now, T.cat)
             last == Get(T.last_phase, k, "none")
         IN  IF phase = "none" THEN TsLoop(T, todo \ {k})
             ELSE IF last = phase THEN TsLoop(T, todo \ {k})
             ELSE LET T1 == [T EXCEPT !.last_phase = Put(@, k, phase)]
                  IN  IF phase = "night"
                      THEN TsLoop([T1 EXCEPT !.pub[k] = BedtimeSeq], todo \ {k})
                      ELSE IF CatHas("user_thresholds")
                      THEN TsLoop([T1 EXCEPT !.pub[k] = do_wakeup], todo \ {k})
                      ELSE [T1 EXCEPT !.pub[k] = do_wakeup]

BridgeVars ==
    <<clock, msgs, states, user_api, window_counts, alert_counts, by, out,
      wtimes, wkinds, lastParams, prevParams, sentWin, win, pend, fault, race>>

\* a user's sleep and wake times are edited in the catalog
TsCatalogChange ==
    /\ \E u \in Users, t \in TimeChoices :
          /\ ts.cat[u] # t
          /\ ts' = [ts EXCEPT !.cat[u] = t]
    /\ UNCHANGED BridgeVars

\* on_message for a Light topic: the pair is registered, the lookup of the
\* user's room raises and is logged, and a reading that parses is cached
TsOnLight ==
    /\ \E k \in Subjects, parses \in BOOLEAN :
          /\ k \notin ts.known \/ (parses /\ k \notin ts.light)
          /\ ts' = [ts EXCEPT !.known = @ \cup {k},
                              !.light = IF parses THEN @ \cup {k} ELSE @]
    /\ UNCHANGED BridgeVars

\* on_message for an initTimeshift topic: the pair is registered; get_user
\* raises before a phase is seeded
TsOnInit ==
    /\ \E k \in Subjects :
          /\ k \notin ts.known
          /\ ts' = [ts EXCEPT
                      !.known = @ \cup {k},
                      !.last_phase =
                         IF CatHas("get_user") /\ PhaseAt(ts.cat[k[1]], ts.now) # "none"
                         THEN Put(@, k, PhaseAt(ts.cat[k[1]], ts.now)) ELSE @]
    /\ UNCHANGED BridgeVars

\* one iteration of the loop of run, the wait before it included: the minute
\* is the same or the next one
TsIterate ==
    /\ ts.iters < TsIters
    /\ \E now \in {ts.now, (ts.now + 1) % DayLen} :
          ts' = TsLoop([ts EXCEPT !.now = now, !.iters = @ + 1,
                                  !.pub = [k \in Subjects |-> <<>>]],
                       ts.known)
    /\ UNCHANGED BridgeVars

TsNext ==
    \/ TsCatalogChange
    \/ TsOnLight
    \/ TsOnInit
    \/ TsIterate

SpecTimeShift == Init /\ [][TsNext]_vars

====
